---- MODULE Spec2Model ----
(***************************************************************************)
(* Polled period measurement with TIMER0 input capture                     *)
(* (series2/timer/timer_period_measurement_polled/src/main.c).             *)
(*                                                                         *)
(* The model has two parts.  The hardware part is TIMER0 as initTimer      *)
(* configures it: an up-counter CNT that runs from 0 to TOP and wraps to   *)
(* 0 setting the sticky overflow flag TIMER_IF_OF, and capture channel 0   *)
(* that latches CNT into the input-capture FIFO on a falling edge of the   *)
(* input pin.  The software part is main's loop and calculatePeriod, cut   *)
(* into one step per access to a TIMER0 register, because the counter     *)
(* keeps running between two such accesses.                               *)
(*                                                                         *)
(* Variables marked "history" are not program state: they record what the  *)
(* hardware really did (how many wraps lie between two captures) and what  *)
(* the previous call computed, so that the properties can compare the      *)
(* program's result against it.  Spec is the program and the timer alone;  *)
(* SpecHistory is the same with the history kept.                          *)
(***************************************************************************)
EXTENDS Integers, Sequences, FiniteSets, TLC

VARIABLES
  CNT,               \* TIMER0->CNT, the running counter
  OF,                \* TIMER_IF_OF in TIMER0->IF (sticky)
  icf,               \* input-capture FIFO of channel 0, oldest entry first
  sinceCapture,      \* history: wraps since the last capture that entered the FIFO
  signaled,          \* history: times the hardware set OF since the program cleared it
  pc,                \* position of the program
  current_edge,      \* local of calculatePeriod (line 100)
  ofSeen,            \* value of TIMER_IntGet(TIMER0) & TIMER_IF_OF at line 103
  period,            \* local of calculatePeriod (line 110), its return value
  overflowCount,     \* static, line 37
  lastCapturedEdge,  \* static, line 34
  measuredPeriod,    \* static, line 31
  ticks,             \* history: the dividend of line 110-111 in this call (a uint32_t)
  curWraps,          \* history: wraps between the capture before current_edge and current_edge
  wSeen,             \* history: value of signaled when line 103 read the flag
  prevEdge,          \* history: the capture value read by the call before this one
  calls,             \* history: calls of calculatePeriod that returned (2: two or more)
  startEdge,         \* history: lastCapturedEdge on entry to the call before this one
  prevTicks,         \* history: ticks of the call before this one
  prevW              \* history: wSeen of the call before this one

hw == <<CNT, OF, icf, sinceCapture, signaled>>
call == <<current_edge, ofSeen, period, ticks, curWraps, wSeen, prevEdge>>
statics == <<overflowCount, lastCapturedEdge, measuredPeriod>>
twoCalls == <<startEdge, prevTicks, prevW>>

vars == <<hw, pc, call, statics, calls, twoCalls>>

----------------------------------------------------------------------------
(* Bounds of the model *)

\* The counter is observed at Steps evenly spaced values and at TOP.
Steps == 2
\* Distance in counter ticks between two observed values.
Quantum == 32768
\* Wraps the history can hold; a further wrap waits for the program.
MaxWraps == 2
\* Entries of the input-capture FIFO.
FifoDepth == 2

----------------------------------------------------------------------------
(* Constants of the program *)

HFPERCLK_IN_MHZ == 19
\* timerPrescale1 is the enumerator 0 of TIMER_Prescale_TypeDef: divide by 1.
timerPrescale1 == 0
\* 2^16; a uint32_t is handled as two 16-bit halves
Half == 65536

\* TIMER_TopGet(TIMER0): initTimer leaves TIMER0->TOP as it is.
TimerTop == Steps * Quantum - 1

\* HFPERCLK_IN_MHZ * (1 << timerPrescale1)
Scale == HFPERCLK_IN_MHZ * (2 ^ timerPrescale1)

----------------------------------------------------------------------------
(* uint32_t arithmetic of line 110-112.  A uint32_t is <<high half, low    *)
(* half>>; U32 reduces an integer modulo 2^32, U32Div is the unsigned      *)
(* division by a small divisor, whose quotient fits an integer.           *)

\* Variant: the difference is formed in a wider type and never reduced.
U32_Wide(v) == << v \div Half, v % Half >>

U32(v) == << (v \div Half) % Half, v % Half >>

U32Div(u, d) == (u[1] \div d) * Half + (((u[1] % d) * Half + u[2]) \div d)

\* overflowCount * (TIMER_TopGet(TIMER0) + 2) - lastCapturedEdge + current_edge
RawTicks(oc, last, cur) == U32(oc * (TimerTop + 2) - last + cur)

\* The counter value after the one observed at c.
NextCnt(c) == IF c = TimerTop THEN 0
              ELSE IF c + Quantum > TimerTop THEN TimerTop
              ELSE c + Quantum

Readings == {k * Quantum : k \in 0 .. Steps - 1} \union {TimerTop}

----------------------------------------------------------------------------
Init ==
  /\ CNT = 0
  /\ OF = FALSE
  /\ icf = << >>
  /\ sinceCapture = 0
  /\ signaled = 0
  /\ pc = "poll"
  /\ current_edge = 0
  /\ ofSeen = FALSE
  /\ period = 0
  /\ overflowCount = 0
  /\ lastCapturedEdge = 0
  /\ measuredPeriod = 0
  /\ ticks = U32(0)
  /\ curWraps = 0
  /\ wSeen = 0
  /\ prevEdge = 0
  /\ calls = 0
  /\ startEdge = 0
  /\ prevTicks = U32(0)
  /\ prevW = 0

----------------------------------------------------------------------------
(* TIMER0.  One step is one observed counter cycle: the capture logic      *)
(* samples the input pin, latching CNT on a falling edge, and the counter  *)
(* advances, setting the overflow flag when it leaves TOP.                 *)
(* With h the step also keeps the history of the wraps; the history holds  *)
(* MaxWraps wraps, and a cycle that would add one more waits for the       *)
(* program.  Without h the counter runs freely.                            *)

\* 1 when the counter leaves TOP in this cycle.
Wraps == IF CNT = TimerTop THEN 1 ELSE 0

\* history: wraps that no call of calculatePeriod has yet had before it.
RECURSIVE PendingWraps(_)
PendingWraps(q) == IF q = << >> THEN 0 ELSE Head(q).wraps + PendingWraps(Tail(q))

\* The counter advances; a wrap sets TIMER_IF_OF, which stays set.
Advance(h) ==
  /\ h => /\ signaled + Wraps <= MaxWraps
          /\ PendingWraps(icf) + sinceCapture + Wraps <= MaxWraps
  /\ CNT' = NextCnt(CNT)
  /\ OF' = (OF \/ Wraps = 1)
  /\ signaled' = IF h THEN signaled + Wraps ELSE 0

\* A cycle without a falling edge, or with one that finds the FIFO full and
\* is lost.
Tick(h) ==
  /\ Advance(h)
  /\ sinceCapture' = IF h THEN sinceCapture + Wraps ELSE 0
  /\ UNCHANGED icf
  /\ UNCHANGED <<pc, call, statics, calls, twoCalls>>

\* A cycle with a falling edge: CNT enters the FIFO.
TickCapture(h) ==
  /\ Advance(h)
  /\ Len(icf) < FifoDepth
  /\ icf' = Append(icf, [val |-> CNT, wraps |-> sinceCapture])
  /\ sinceCapture' = IF h THEN Wraps ELSE 0
  /\ UNCHANGED <<pc, call, statics, calls, twoCalls>>

\* A cycle with a falling edge that finds the FIFO full and takes the place
\* of its newest entry.
TickCaptureFull(h) ==
  /\ Advance(h)
  /\ Len(icf) = FifoDepth
  /\ icf' = [icf EXCEPT ![FifoDepth] =
               [val |-> CNT, wraps |-> @.wraps + sinceCapture]]
  /\ sinceCapture' = IF h THEN Wraps ELSE 0
  /\ UNCHANGED <<pc, call, statics, calls, twoCalls>>

----------------------------------------------------------------------------
(* main and calculatePeriod *)

\* while (TIMER0->STATUS & TIMER_STATUS_ICFEMPTY0);
Poll ==
  /\ pc = "poll"
  /\ icf # << >>
  /\ pc' = "capget"
  /\ period' = 0
  /\ UNCHANGED <<hw, current_edge, ofSeen, ticks, curWraps, wSeen, prevEdge>>
  /\ UNCHANGED <<statics, calls, twoCalls>>

\* uint32_t current_edge = TIMER_CaptureGet(TIMER0, 0);
CaptureGet ==
  /\ pc = "capget"
  /\ current_edge' = Head(icf).val
  /\ curWraps' = Head(icf).wraps
  /\ prevEdge' = current_edge
  /\ icf' = Tail(icf)
  /\ pc' = "intget"
  /\ UNCHANGED <<CNT, OF, sinceCapture, signaled>>
  /\ UNCHANGED <<ofSeen, period, ticks, wSeen, statics, calls, twoCalls>>

\* if (TIMER_IntGet(TIMER0) & TIMER_IF_OF)
IntGet ==
  /\ pc = "intget"
  /\ ofSeen' = OF
  /\ wSeen' = signaled
  /\ pc' = IF OF THEN "intclear" ELSE "calc"
  /\ UNCHANGED <<hw, current_edge, period, ticks, curWraps, prevEdge>>
  /\ UNCHANGED <<statics, calls, twoCalls>>

\* Variant: the count is taken and the flag is left set.
IntClear_FlagLeftSet ==
  /\ pc = "intclear"
  /\ overflowCount' = overflowCount + 1
  /\ pc' = "calc"
  /\ UNCHANGED <<hw, call, lastCapturedEdge, measuredPeriod, calls, twoCalls>>

\* overflowCount++; TIMER_IntClear(TIMER0, TIMER_IF_OF);
IntClear ==
  /\ pc = "intclear"
  /\ overflowCount' = overflowCount + 1
  /\ OF' = FALSE
  /\ signaled' = 0
  /\ pc' = "calc"
  /\ UNCHANGED <<CNT, icf, sinceCapture>>
  /\ UNCHANGED <<call, lastCapturedEdge, measuredPeriod, calls, twoCalls>>

\* Variant: overflowCount is not reset.
Calculate_CountKept ==
  /\ pc = "calc"
  /\ ticks' = RawTicks(overflowCount, lastCapturedEdge, current_edge)
  /\ period' = U32Div(ticks', Scale)
  /\ lastCapturedEdge' = current_edge
  /\ calls' = IF calls < 2 THEN calls + 1 ELSE calls
  /\ pc' = "store"
  /\ UNCHANGED <<hw, current_edge, ofSeen, curWraps, wSeen, prevEdge, measuredPeriod,
                 overflowCount>>

\* Variant: the capture value is not recorded for the next call.
Calculate_EdgeKept ==
  /\ pc = "calc"
  /\ ticks' = RawTicks(overflowCount, lastCapturedEdge, current_edge)
  /\ period' = U32Div(ticks', Scale)
  /\ overflowCount' = 0
  /\ calls' = IF calls < 2 THEN calls + 1 ELSE calls
  /\ pc' = "store"
  /\ UNCHANGED <<hw, current_edge, ofSeen, curWraps, wSeen, prevEdge, measuredPeriod,
                 lastCapturedEdge>>

\* line 110-120: the period, the two statics, return
Calculate ==
  /\ pc = "calc"
  /\ ticks' = RawTicks(overflowCount, lastCapturedEdge, current_edge)
  /\ period' = U32Div(ticks', Scale)
  /\ lastCapturedEdge' = current_edge
  /\ overflowCount' = 0
  /\ calls' = IF calls < 2 THEN calls + 1 ELSE calls
  /\ pc' = "store"
  /\ UNCHANGED <<hw, current_edge, ofSeen, curWraps, wSeen, prevEdge, measuredPeriod>>

\* calculatePeriod as the program runs it
Compute ==
  /\ Calculate
  /\ UNCHANGED twoCalls

\* calculatePeriod, with the history of the call kept for the next one
ComputeKeep ==
  /\ Calculate
  /\ startEdge' = lastCapturedEdge
  /\ prevTicks' = ticks'
  /\ prevW' = wSeen

\* Variant: the result of the call is dropped.
Store_ResultDropped ==
  /\ pc = "store"
  /\ pc' = "poll"
  /\ ofSeen' = FALSE
  /\ ticks' = U32(0)
  /\ curWraps' = 0
  /\ wSeen' = 0
  /\ prevEdge' = 0
  /\ UNCHANGED <<hw, current_edge, period, statics, calls, twoCalls>>

\* measuredPeriod = calculatePeriod();
\* The call has ended: the history of it is dropped.
Store ==
  /\ pc = "store"
  /\ measuredPeriod' = period
  /\ pc' = "poll"
  /\ ofSeen' = FALSE
  /\ ticks' = U32(0)
  /\ curWraps' = 0
  /\ wSeen' = 0
  /\ prevEdge' = 0
  /\ UNCHANGED <<hw, current_edge, period, overflowCount, lastCapturedEdge, calls,
                 twoCalls>>

----------------------------------------------------------------------------
Hardware == Tick(FALSE) \/ TickCapture(FALSE) \/ TickCaptureFull(FALSE)
HardwareKeep == Tick(TRUE) \/ TickCapture(TRUE) \/ TickCaptureFull(TRUE)
Program == Poll \/ CaptureGet \/ IntGet \/ IntClear \/ Compute \/ Store
ProgramKeep == Poll \/ CaptureGet \/ IntGet \/ IntClear \/ ComputeKeep \/ Store

Next == Hardware \/ Program
NextKeep == HardwareKeep \/ ProgramKeep

\* The program and TIMER0.
Spec == Init /\ [][Next]_vars

\* The same, with the history of the wraps and of two consecutive calls.
SpecHistory == Init /\ [][NextKeep]_vars

\* The core executes the program without stopping.
FairSpec == Spec /\ WF_vars(Program)

TypeOK ==
  /\ CNT \in Readings
  /\ OF \in BOOLEAN
  /\ Len(icf) <= FifoDepth
  /\ pc \in {"poll", "capget", "intget", "intclear", "calc", "store"}
  /\ lastCapturedEdge \in Readings

----------------------------------------------------------------------------
(* Properties *)

\* The step in which calculatePeriod computes its result and returns.
Returns == pc = "calc" /\ pc' = "store"

\* The sum of two uint32_t.
U32Add(a, b) ==
  LET lo == a[2] + b[2]
  IN  << (a[1] + b[1] + lo \div Half) % Half, lo % Half >>

\* C1: a call before which the overflow was signaled w times returns
\* (w * (counterTop + 2) - p + c) / 19, p being lastCapturedEdge and c the
\* capture it reads.
C1_PeriodCountsSignaledWraps ==
  [][LET n == wSeen * (TimerTop + 2) - lastCapturedEdge + current_edge
     IN  Returns /\ n >= 0 => period' = n \div 19]_vars

\* C2: the overflowCount used in the formula equals the number of counter
\* wraps between the previous capture event and the current one.
C2_CountEqualsWrapsBetweenCaptures ==
  pc = "calc" => overflowCount = curWraps

\* C3: when the recorded wraps are the wraps that happened, the dividend is
\* the number of counter ticks between the two captures, a full period of a
\* counter that counts 0..counterTop being counterTop + 1 ticks.
C3_TicksAreElapsedTicks ==
  [][Returns /\ overflowCount = curWraps
       => ticks' = U32(curWraps * (TimerTop + 1) + current_edge - lastCapturedEdge)]_vars

\* C4: once calculatePeriod has returned and until it is called again,
\* lastCapturedEdge is the capture value the last call read (0 before the
\* first call) and overflowCount is 0.
C4_StateBetweenCalls ==
  pc \in {"store", "poll"} => overflowCount = 0 /\ lastCapturedEdge = current_edge

C4_Witness ==
  pc = "store" /\ calls = 2 /\ ofSeen /\ current_edge = TimerTop /\ prevEdge = 0

\* C5: a call that reads the capture value the call before it read, with no
\* overflow flagged in between, returns 0.
C5_SameCaptureGivesZero ==
  [][Returns /\ ~ofSeen /\ prevEdge = current_edge => period' = 0]_vars

C5_Witness ==
  /\ pc = "store" /\ calls = 2
  /\ ~ofSeen /\ prevEdge = TimerTop /\ current_edge = TimerTop
  /\ period = 0

\* C6: the tick counts of two consecutive calls, before which the overflow
\* was signaled w1 and w2 times, add up to the tick count of one call from
\* the same first to the same last reading before which it was signaled
\* w1 + w2 times (such a call finds the flag set when w1 + w2 > 0, and
\* counts one overflow).
C6_TwoCallsAddUp ==
  [][Returns /\ calls >= 1
       => U32Add(prevTicks, ticks')
            = RawTicks(IF prevW + wSeen > 0 THEN 1 ELSE 0, startEdge, current_edge)]_vars

\* The order in which the program passes through its positions.
Order ==
  { <<"poll", "capget">>, <<"capget", "intget">>, <<"intget", "intclear">>,
    <<"intget", "calc">>, <<"intclear", "calc">>, <<"calc", "store">>,
    <<"store", "poll">> }

C8_MissedWrapWrapsAround ==
  [][Returns /\ overflowCount = 0 /\ current_edge < lastCapturedEdge
       => /\ period' = 226050910 + ((6 - (lastCapturedEdge - current_edge)) \div 19)
          /\ lastCapturedEdge' = current_edge
          /\ overflowCount' = 0]_vars

C8_Witness ==
  /\ pc = "store" /\ calls = 2
  /\ ~ofSeen /\ current_edge = 0 /\ prevEdge = TimerTop
  /\ period > 200000000

C10_CountedWrapsLieBetweenCaptures ==
  pc = "calc" => overflowCount <= curWraps
====
